---- MODULE Spec2Model ----
(***************************************************************************)
(* The wire codec of lsp_types.rs.  The file declares data shapes and      *)
(* derives their JSON encoders and decoders (serde's Serialize and         *)
(* Deserialize, serde_repr's Serialize_repr and Deserialize_repr).  A     *)
(* declaration is modelled as a schema value, written field for field and  *)
(* variant for variant from the source; Decode and Encode interpret a      *)
(* schema the way the derived code reads and writes serde_json documents.  *)
(***************************************************************************)
EXTENDS Integers, Sequences, FiniteSets, TLC

VARIABLES pc, shape, doc, val, wire

vars == <<pc, shape, doc, val, wire>>

(***************************************************************************)
(* JSON documents.  An integer is sign and magnitude, the magnitude split  *)
(* as hi * 2^16 + lo, so that values on both sides of the 32-bit limits    *)
(* are representable.  A float carries its integral part and one digit of  *)
(* fraction.  An object is a function from its member names to documents.  *)
(***************************************************************************)
JNull == [t |-> "null"]

JBool(b) == [t |-> "bool", b |-> b]

JInt(neg, hi, lo) == [t |-> "int", neg |-> neg, hi |-> hi, lo |-> lo]

JNum(n) == JInt(FALSE, 0, n)

JFloat(neg, hi, lo, frac) ==
    [t |-> "float", neg |-> neg, hi |-> hi, lo |-> lo, frac |-> frac]

JStr(s) == [t |-> "str", s |-> s]

JArr(a) == [t |-> "arr", a |-> a]

JObj(o) == [t |-> "obj", o |-> o]

EmptyObj == [x \in {} |-> JNull]

Put(o, k, v) == [x \in (DOMAIN o) \cup {k} |-> IF x = k THEN v ELSE o[x]]

Members(j) == IF j.t = "obj" THEN DOMAIN j.o ELSE {}

Has(j, k) == k \in Members(j)

(***************************************************************************)
(* Schema constructors.                                                    *)
(***************************************************************************)
Field(name, ty) == [name |-> name, ty |-> ty]

Struct(fields) == [k |-> "struct", fields |-> fields]

Option(ty) == [k |-> "option", of |-> ty]

Vec(ty) == [k |-> "vec", of |-> ty]

BTreeMap(ty) == [k |-> "map", of |-> ty]

Ref(name) == [k |-> "ref", name |-> name]

\* a variant holding one value, a variant holding nothing, a variant with
\* named fields; `wire` is the name after #[serde(rename)]
Newtype(name, ty) == [name |-> name, wire |-> name, style |-> "newtype", ty |-> ty]

Unit(name, lit) == [name |-> name, wire |-> lit, style |-> "unit", ty |-> Struct(<<>>)]

StructVariant(name, fields) ==
    [name |-> name, wire |-> name, style |-> "struct", ty |-> Struct(fields)]

\* #[derive(Serialize, Deserialize)] pub enum: externally tagged
Enum(variants) == [k |-> "enum", untagged |-> FALSE, variants |-> variants]

\* ... with #[serde(untagged)]
Untagged(variants) == [k |-> "enum", untagged |-> TRUE, variants |-> variants]

\* #[derive(Serialize_repr, Deserialize_repr)] #[repr(u8)]
ReprU8(variants) == [k |-> "repr", variants |-> variants]

Discriminant(name, n) == [name |-> name, n |-> n]

(***************************************************************************)
(* Base types.                                                             *)
(***************************************************************************)
String == [k |-> "string"]

Boolean == [k |-> "bool"]

Integer == [k |-> "i32"]

UInteger == [k |-> "u32"]

Decimal == [k |-> "f64"]

I32MaxHi == 32767

U32MaxHi == 65535

U8Max == 255

FitsI32(j) ==
    IF j.neg THEN j.hi <= I32MaxHi \/ (j.hi = I32MaxHi + 1 /\ j.lo = 0)
    ELSE j.hi <= I32MaxHi

FitsU32(j) == ~j.neg /\ j.hi <= U32MaxHi

FitsU8(j) == ~j.neg /\ j.hi = 0 /\ j.lo <= U8Max

(***************************************************************************)
(* The declarations, in the order of the source where TLA+ allows it (a    *)
(* definition is written after the ones it uses).                          *)
(***************************************************************************)
\* IntegerOrString with the #[serde(untagged)] attribute left out
IntegerOrStringKeyed == Enum(<<Newtype("String", String), Newtype("Integer", Integer)>>)

IntegerOrString == Untagged(<<Newtype("String", String), Newtype("Integer", Integer)>>)

LSPObject == BTreeMap(Ref("LSPAny"))

LSPArray == Vec(Ref("LSPAny"))

ArrayOrObject == Untagged(<<Newtype("Array", LSPArray), Newtype("Object", LSPObject)>>)

LSPAny ==
    Enum(<<Newtype("LSPObject", LSPObject), Newtype("LSPArray", LSPArray),
           Newtype("String", String), Newtype("Integer", Integer),
           Newtype("UInteger", UInteger), Newtype("Decimal", Decimal),
           Newtype("Boolean", Boolean)>>)

Resolve(name) == CASE name = "LSPAny" -> LSPAny

RequestMessage ==
    Struct(<<Field("jsonrpc", String), Field("id", IntegerOrString),
             Field("method", String), Field("params", Option(ArrayOrObject))>>)

ResponseError ==
    Struct(<<Field("code", Integer), Field("message", String),
             Field("data", Option(LSPAny))>>)

ResponseMessage ==
    Struct(<<Field("jsonrpc", String), Field("id", Option(IntegerOrString)),
             Field("result", Option(LSPAny)), Field("error", Option(ResponseError))>>)


\* pub mod ErrorCodes: the constants, under the names of the source
ParseError == -32700

InvalidRequest == -32600

MethodNotFound == -32601

InvalidParams == -32602

InternalError == -32603

jsonrpcReservedErrorRangeStart == -32099

serverErrorStart == jsonrpcReservedErrorRangeStart

ServerNotInitialized == -32002

UnknownErrorCode == -32001

jsonrpcReservedErrorRangeEnd == -32000

\* serverErrorEnd set to the start of the range
serverErrorEndAtStart == jsonrpcReservedErrorRangeStart

serverErrorEnd == jsonrpcReservedErrorRangeEnd

lspReservedErrorRangeStart == -32899

\* RequestFailed given the value of the line above it
RequestFailedAtRangeStart == lspReservedErrorRangeStart

RequestFailed == -32803

ServerCancelled == -32802

ContentModified == -32801

RequestCancelled == -32800

lspReservedErrorRangeEnd == -32800

\* ErrorCodes::<name>
ErrorCodes ==
    [ParseError |-> ParseError, InvalidRequest |-> InvalidRequest,
     MethodNotFound |-> MethodNotFound, InvalidParams |-> InvalidParams,
     InternalError |-> InternalError,
     jsonrpcReservedErrorRangeStart |-> jsonrpcReservedErrorRangeStart,
     serverErrorStart |-> serverErrorStart,
     ServerNotInitialized |-> ServerNotInitialized,
     UnknownErrorCode |-> UnknownErrorCode,
     jsonrpcReservedErrorRangeEnd |-> jsonrpcReservedErrorRangeEnd,
     serverErrorEnd |-> serverErrorEnd,
     lspReservedErrorRangeStart |-> lspReservedErrorRangeStart,
     RequestFailed |-> RequestFailed, ServerCancelled |-> ServerCancelled,
     ContentModified |-> ContentModified, RequestCancelled |-> RequestCancelled,
     lspReservedErrorRangeEnd |-> lspReservedErrorRangeEnd]

NotificationMessage ==
    Struct(<<Field("jsonrpc", String), Field("method", String),
             Field("params", Option(ArrayOrObject))>>)

ProgressToken == Enum(<<Newtype("Integer", Integer), Newtype("String", String)>>)


\* #[serde(untagged)] on an enum of unit variants: the #[serde(rename)]
\* strings name the variants of a tagged form only and play no part here
EOL == Untagged(<<Unit("LF", "\n"), Unit("CRLF", "\r\n"), Unit("CR", "\r")>>)

Position == Struct(<<Field("line", UInteger), Field("character", UInteger)>>)

Range == Struct(<<Field("start", Position), Field("end", Position)>>)

OptionalVersionedTextDocumentIdentifier ==
    Struct(<<Field("uri", String), Field("version", Option(Integer))>>)

TextEdit == Struct(<<Field("range", Range), Field("newText", String)>>)

AnnotatedTextEdit ==
    Struct(<<Field("range", Range), Field("newText", String),
             Field("annotationId", String)>>)

TextEditOrAnnotatedTextEdit ==
    Enum(<<Newtype("TextEdit", TextEdit), Newtype("AnnotatedTextEdit", AnnotatedTextEdit)>>)


ChangeAnnotation ==
    Struct(<<Field("label", String), Field("needsConfirmation", Option(Boolean)),
             Field("description", Option(String))>>)

TextDocumentEdit ==
    Struct(<<Field("textDocument", OptionalVersionedTextDocumentIdentifier),
             Field("edits", Vec(TextEditOrAnnotatedTextEdit))>>)

Location == Struct(<<Field("uri", String), Field("range", Range)>>)

DiagnosticSeverity ==
    ReprU8(<<Discriminant("Error", 1), Discriminant("Warning", 2),
             Discriminant("Information", 3), Discriminant("Hint", 4)>>)

DiagnosticTag == Enum(<<Unit("Unnecessary", "Unnecessary"), Unit("Deprecated", "Deprecated")>>)

DiagnosticRelatedInformation ==
    Struct(<<Field("location", Location), Field("message", String)>>)

CodeDescription == Struct(<<Field("href", String)>>)

Diagnostic ==
    Struct(<<Field("range", Range), Field("severity", Option(DiagnosticSeverity)),
             Field("code", Option(IntegerOrString)),
             Field("codeDescription", Option(CodeDescription)),
             Field("source", Option(String)), Field("message", String),
             Field("tags", Option(Vec(DiagnosticTag))),
             Field("relatedInformation", Option(Vec(DiagnosticRelatedInformation))),
             Field("data", Option(LSPAny))>>)

MarkupKind == Enum(<<Unit("PlainText", "plaintext"), Unit("Markdown", "markdown")>>)

MarkupContent == Struct(<<Field("kind", MarkupKind), Field("value", String)>>)


\* the one variant the enum declares; `(TextDocumentEdit | CreateFile |
\* RenameFile | DeleteFile)[]` is a comment in the source, and CreateFile,
\* RenameFile and DeleteFile derive neither Serialize nor Deserialize
WorkspaceEditDocumentChanges ==
    Untagged(<<Newtype("TextDocumentEdit", Vec(TextDocumentEdit))>>)

WorkspaceEdit ==
    Struct(<<Field("changes", Option(BTreeMap(Vec(TextEdit)))),
             Field("documentChanges", Option(WorkspaceEditDocumentChanges)),
             Field("changeAnnotations", Option(BTreeMap(ChangeAnnotation)))>>)

ResourceOperationKind ==
    Enum(<<Unit("Create", "create"), Unit("Rename", "rename"), Unit("Delete", "delete")>>)



WorkDoneProgress ==
    Enum(<<Unit("Begin", "begin"), Unit("Report", "report"), Unit("End", "end")>>)

WorkDoneProgressBegin ==
    Struct(<<Field("kind", WorkDoneProgress), Field("title", String),
             Field("cancellable", Option(Boolean)), Field("message", Option(String)),
             Field("percentage", Option(UInteger))>>)

WorkDoneProgressReport ==
    Struct(<<Field("kind", WorkDoneProgress), Field("cancellable", Option(Boolean)),
             Field("message", Option(String)), Field("percentage", Option(UInteger))>>)

WorkDoneProgressEnd ==
    Struct(<<Field("kind", WorkDoneProgress), Field("message", Option(String))>>)

\* TraceValue with the #[serde(rename)] attributes left out
TraceValueUnrenamed ==
    Enum(<<Unit("Off", "Off"), Unit("Messages", "Messages"), Unit("Verbose", "Verbose")>>)

TraceValue ==
    Enum(<<Unit("Off", "off"), Unit("Messages", "messages"), Unit("Verbose", "verbose")>>)

TextDocumentSyncKind ==
    ReprU8(<<Discriminant("None", 0), Discriminant("Full", 1),
             Discriminant("Incremental", 2)>>)


TextDocumentContentChangeEventWithRange ==
    Struct(<<Field("range", Range), Field("rangeLength", Option(UInteger)),
             Field("text", String)>>)

TextDocumentContentChangeEventWithoutRange == Struct(<<Field("text", String)>>)

TextDocumentContentChangeEvent ==
    Untagged(<<Newtype("TextDocumentContentChangeEventWithRange",
                       TextDocumentContentChangeEventWithRange),
               Newtype("TextDocumentContentChangeEventWithoutRange",
                       TextDocumentContentChangeEventWithoutRange)>>)

SaveOptions == Struct(<<Field("includeText", Option(Boolean))>>)

BooleanOrSaveOptions ==
    Enum(<<Newtype("Boolean", Boolean), Newtype("SaveOptions", SaveOptions)>>)

MarkedString ==
    Untagged(<<Newtype("String", String),
               StructVariant("LanguageString",
                             <<Field("language", String), Field("value", String)>>)>>)

\* HoverContents with MarkupContent declared first
HoverContentsReordered ==
    Untagged(<<Newtype("MarkupContent", MarkupContent),
               Newtype("MarkedString", MarkedString),
               Newtype("MarkedStringArray", Vec(MarkedString))>>)

HoverContents ==
    Untagged(<<Newtype("MarkedString", MarkedString),
               Newtype("MarkedStringArray", Vec(MarkedString)),
               Newtype("MarkupContent", MarkupContent)>>)

Hover == Struct(<<Field("contents", HoverContents), Field("range", Option(Range))>>)


FoldingRangeKind ==
    Enum(<<Unit("Comment", "comment"), Unit("Imports", "imports"),
           Unit("Region", "region")>>)

SymbolKind ==
    ReprU8(<<Discriminant("File", 1), Discriminant("Module", 2),
             Discriminant("Namespace", 3), Discriminant("Package", 4),
             Discriminant("Class", 5), Discriminant("Method", 6),
             Discriminant("Property", 7), Discriminant("Field", 8),
             Discriminant("Constructor", 9), Discriminant("Enum", 10),
             Discriminant("Interface", 11), Discriminant("Function", 12),
             Discriminant("Variable", 13), Discriminant("Constant", 14),
             Discriminant("String", 15), Discriminant("Number", 16),
             Discriminant("Boolean", 17), Discriminant("Array", 18),
             Discriminant("Object", 19), Discriminant("Key", 20),
             Discriminant("Null", 21), Discriminant("EnumMember", 22),
             Discriminant("Struct", 23), Discriminant("Event", 24),
             Discriminant("Operator", 25), Discriminant("TypeParameter", 26)>>)

SemanticTokensOptionsFullDelta == Struct(<<Field("delta", Option(Boolean))>>)

SemanticTokensOptionsFull ==
    Enum(<<Newtype("Boolean", Boolean),
           Newtype("SemanticTokensOptionsFullDelta", SemanticTokensOptionsFullDelta)>>)


\* `asIs = 1, adjustIndentation = 2` under #[derive(Serialize, Deserialize)]:
\* the derive goes by the variants' names, the discriminants play no part
InsertTextMode == Enum(<<Unit("asIs", "asIs"), Unit("adjustIndentation", "adjustIndentation")>>)

CompletionItemKind ==
    ReprU8(<<Discriminant("Text", 1), Discriminant("Method", 2),
             Discriminant("Function", 3), Discriminant("Constructor", 4),
             Discriminant("Field", 5), Discriminant("Variable", 6),
             Discriminant("Class", 7), Discriminant("Interface", 8),
             Discriminant("Module", 9), Discriminant("Property", 10),
             Discriminant("Unit", 11), Discriminant("Value", 12),
             Discriminant("Enum", 13), Discriminant("Keyword", 14),
             Discriminant("Snippet", 15), Discriminant("Color", 16),
             Discriminant("File", 17), Discriminant("Reference", 18),
             Discriminant("Folder", 19), Discriminant("EnumMember", 20),
             Discriminant("Constant", 21), Discriminant("Struct", 22),
             Discriminant("Event", 23), Discriminant("Operator", 24),
             Discriminant("TypeParameter", 25)>>)

PublishDiagnosticsParams ==
    Struct(<<Field("uri", String), Field("version", Option(Integer)),
             Field("diagnostics", Vec(Diagnostic))>>)


CodeActionKind ==
    Enum(<<Unit("Empty", ""), Unit("QuickFix", "quickfix"), Unit("Refactor", "refactor"),
           Unit("RefactorExtract", "refactor.extract"),
           Unit("RefactorInline", "refactor.inline"),
           Unit("RefactorRewrite", "refactor.rewrite"), Unit("Source", "source"),
           Unit("SourceOrganizeImports", "source.organizeImports"),
           Unit("SourceFixAll", "source.fixAll")>>)

FileOperationPatternKind == Enum(<<Unit("File", "file"), Unit("Folder", "folder")>>)


WorkspaceFolder == Struct(<<Field("uri", String), Field("name", String)>>)

RelativePatternBaseURI ==
    Untagged(<<Newtype("WorkspaceFolder", WorkspaceFolder), Newtype("URI", String)>>)

RelativePattern ==
    Struct(<<Field("baseUri", RelativePatternBaseURI), Field("pattern", String)>>)

GlobPattern ==
    Untagged(<<Newtype("Pattern", String), Newtype("RelativePattern", RelativePattern)>>)

WatchKind ==
    ReprU8(<<Discriminant("Create", 1), Discriminant("Change", 2),
             Discriminant("Delete", 4)>>)

FileSystemWatcher ==
    Struct(<<Field("globPattern", GlobPattern), Field("kind", Option(WatchKind))>>)

(***************************************************************************)
(* Values.  A base value is the JSON scalar it was read from; the others   *)
(* are tagged: none/some, vec, map, struct (field name -> value), variant  *)
(* (the Rust variant's name and its payload).                              *)
(***************************************************************************)
None == [t |-> "none"]

Some(v) == [t |-> "some", v |-> v]

UnitValue == [t |-> "unit"]

VecValue(a) == [t |-> "vec", a |-> a]

MapValue(m) == [t |-> "map", m |-> m]

StructValue(f) == [t |-> "struct", f |-> f]

Variant(name, v) == [t |-> "variant", name |-> name, v |-> v]

Rejected == [ok |-> FALSE]

Accepted(v) == [ok |-> TRUE, v |-> v]

FieldNames(fields) == {fields[i].name : i \in 1..Len(fields)}

FieldIndex(fields, n) == CHOOSE i \in 1..Len(fields) : fields[i].name = n

VariantNamed(variants, n) == variants[CHOOSE i \in 1..Len(variants) : variants[i].name = n]

(***************************************************************************)
(* Deserialize.                                                            *)
(***************************************************************************)
RECURSIVE Decode(_, _)

\* a member that is not in the object: None for an Option field, an error
\* ("missing field") for every other
MissingField(ty) == IF ty.k = "option" THEN Accepted(None) ELSE Rejected

\* the derived visitor of a struct: visit_map takes the members by name,
\* skips the names it does not know and fills the ones not seen with
\* MissingField; visit_seq (when the form has one) takes exactly one
\* element per field, in order
DecodeFields(fields, j, seqForm) ==
    LET n == Len(fields)
        r == [i \in 1..n |->
                 IF j.t = "obj"
                 THEN IF fields[i].name \in DOMAIN j.o
                      THEN Decode(fields[i].ty, j.o[fields[i].name])
                      ELSE MissingField(fields[i].ty)
                 ELSE Decode(fields[i].ty, j.a[i])]
    IN  IF j.t = "obj" \/ (seqForm /\ j.t = "arr" /\ Len(j.a) = n)
        THEN IF \A i \in 1..n : r[i].ok
             THEN Accepted(StructValue([f \in FieldNames(fields) |->
                                           r[FieldIndex(fields, f)].v]))
             ELSE Rejected
        ELSE Rejected

DecodeSeq(ty, j) ==
    LET r == [i \in 1..Len(j.a) |-> Decode(ty, j.a[i])]
    IN  IF \A i \in 1..Len(j.a) : r[i].ok
        THEN Accepted(VecValue([i \in 1..Len(j.a) |-> r[i].v]))
        ELSE Rejected

DecodeMap(ty, j) ==
    LET r == [m \in DOMAIN j.o |-> Decode(ty, j.o[m])]
    IN  IF \A m \in DOMAIN j.o : r[m].ok
        THEN Accepted(MapValue([m \in DOMAIN j.o |-> r[m].v]))
        ELSE Rejected

\* the payload of a variant of an externally tagged enum
DecodePayload(vr, p) ==
    LET r == CASE vr.style = "unit" -> IF p.t = "null" THEN Accepted(UnitValue) ELSE Rejected
               [] vr.style = "newtype" -> Decode(vr.ty, p)
               [] vr.style = "struct" -> DecodeFields(vr.ty.fields, p, TRUE)
    IN  IF r.ok THEN Accepted(Variant(vr.name, r.v)) ELSE Rejected

\* an externally tagged enum reads a string (the name of a unit variant) or
\* an object with exactly one member (the variant's name and its payload)
DecodeTagged(variants, j) ==
    LET named(w) == {i \in 1..Len(variants) : variants[i].wire = w}
        pick(w) == variants[CHOOSE i \in named(w) : TRUE]
        key == CHOOSE m \in DOMAIN j.o : TRUE
    IN  CASE j.t = "str" ->
               IF named(j.s) # {} /\ pick(j.s).style = "unit"
               THEN Accepted(Variant(pick(j.s).name, UnitValue))
               ELSE Rejected
          [] j.t = "obj" /\ Cardinality(DOMAIN j.o) = 1 ->
               IF named(key) # {} THEN DecodePayload(pick(key), j.o[key]) ELSE Rejected
          [] OTHER -> Rejected

\* an untagged enum buffers the document and tries the variants in the
\* order of declaration; the first that reads it wins.  A variant with
\* named fields reads an object only (its visitor has no visit_seq)
DecodeUntagged(variants, j) ==
    LET try(vr) ==
            CASE vr.style = "unit" -> IF j.t = "null" THEN Accepted(UnitValue) ELSE Rejected
              [] vr.style = "newtype" -> Decode(vr.ty, j)
              [] vr.style = "struct" -> DecodeFields(vr.ty.fields, j, FALSE)
        r == [i \in 1..Len(variants) |-> try(variants[i])]
        hits == {i \in 1..Len(variants) : r[i].ok}
        first == CHOOSE i \in hits : \A h \in hits : i <= h
    IN  IF hits = {} THEN Rejected ELSE Accepted(Variant(variants[first].name, r[first].v))


\* DecodeRepr with a catch-all arm: a u8 that no discriminant matches is
\* read as the last variant
DecodeReprCatchAll(variants, j) ==
    LET hits == {i \in 1..Len(variants) : JNum(variants[i].n) = j}
        i == IF hits # {} THEN CHOOSE h \in hits : TRUE ELSE Len(variants)
    IN  IF j.t = "int" /\ FitsU8(j)
        THEN Accepted(Variant(variants[i].name, UnitValue))
        ELSE Rejected

\* serde_repr reads a u8 and matches it against the discriminants
DecodeRepr(variants, j) ==
    LET hits == {i \in 1..Len(variants) : JNum(variants[i].n) = j}
    IN  IF j.t = "int" /\ FitsU8(j) /\ hits # {}
        THEN Accepted(Variant(variants[CHOOSE i \in hits : TRUE].name, UnitValue))
        ELSE Rejected

Decode(ty, j) ==
    CASE ty.k = "ref" -> Decode(Resolve(ty.name), j)
      [] ty.k = "string" -> IF j.t = "str" THEN Accepted(j) ELSE Rejected
      [] ty.k = "bool" -> IF j.t = "bool" THEN Accepted(j) ELSE Rejected
      [] ty.k = "i32" -> IF j.t = "int" /\ FitsI32(j) THEN Accepted(j) ELSE Rejected
      [] ty.k = "u32" -> IF j.t = "int" /\ FitsU32(j) THEN Accepted(j) ELSE Rejected
      [] ty.k = "f64" ->
           CASE j.t = "int" -> Accepted(JFloat(j.neg, j.hi, j.lo, 0))
             [] j.t = "float" -> Accepted(j)
             [] OTHER -> Rejected
      [] ty.k = "option" ->
           IF j.t = "null" THEN Accepted(None)
           ELSE LET r == Decode(ty.of, j)
                IN  IF r.ok THEN Accepted(Some(r.v)) ELSE Rejected
      [] ty.k = "vec" -> IF j.t = "arr" THEN DecodeSeq(ty.of, j) ELSE Rejected
      [] ty.k = "map" -> IF j.t = "obj" THEN DecodeMap(ty.of, j) ELSE Rejected
      [] ty.k = "struct" -> DecodeFields(ty.fields, j, TRUE)
      [] ty.k = "enum" ->
           IF ty.untagged THEN DecodeUntagged(ty.variants, j)
           ELSE DecodeTagged(ty.variants, j)
      [] ty.k = "repr" -> DecodeRepr(ty.variants, j)

(***************************************************************************)
(* Serialize.                                                              *)
(***************************************************************************)
RECURSIVE Encode(_, _)

\* a struct writes every field, in order; no field of the file carries
\* #[serde(skip_serializing_if)], so an Option that is None is written as
\* the member with the value null
EncodeFields(fields, v) ==
    JObj([f \in FieldNames(fields) |-> Encode(fields[FieldIndex(fields, f)].ty, v.f[f])])

EncodeVariant(ty, v) ==
    LET vr == VariantNamed(ty.variants, v.name)
        body == CASE vr.style = "unit" -> JNull
                  [] vr.style = "newtype" -> Encode(vr.ty, v.v)
                  [] vr.style = "struct" -> EncodeFields(vr.ty.fields, v.v)
    IN  IF ty.untagged THEN body
        ELSE IF vr.style = "unit" THEN JStr(vr.wire)
        ELSE JObj(Put(EmptyObj, vr.wire, body))

Encode(ty, v) ==
    CASE ty.k = "ref" -> Encode(Resolve(ty.name), v)
      [] ty.k \in {"string", "bool", "i32", "u32", "f64"} -> v
      [] ty.k = "option" -> IF v.t = "none" THEN JNull ELSE Encode(ty.of, v.v)
      [] ty.k = "vec" -> JArr([i \in 1..Len(v.a) |-> Encode(ty.of, v.a[i])])
      [] ty.k = "map" -> JObj([m \in DOMAIN v.m |-> Encode(ty.of, v.m[m])])
      [] ty.k = "struct" -> EncodeFields(ty.fields, v)
      [] ty.k = "enum" -> EncodeVariant(ty, v)
      [] ty.k = "repr" -> JNum(VariantNamed(ty.variants, v.name).n)

(***************************************************************************)
(* The state machine.  A run takes a document off the wire and decodes it  *)
(* as one of the declared shapes, or constructs a value of a shape         *)
(* directly; a value so obtained can be encoded.                           *)
(*   pc     "start" (a document is waiting), "new" (nothing read),         *)
(*          "decoded", "built", "encoded"                                  *)
(*   shape  the declaration the value belongs to                           *)
(*   doc    the document read                                              *)
(*   val    the decoder's answer, or the constructed value                 *)
(*   wire   the document written                                           *)
(***************************************************************************)
NoDoc == [t |-> "none"]

Idle ==
    /\ shape = ""
    /\ val = Rejected
    /\ wire = NoDoc

\* a document of `docs` has arrived
Start(docs) == Idle /\ pc = "start" /\ doc \in docs

\* nothing has arrived; a value is about to be constructed
Fresh == Idle /\ pc = "new" /\ doc = NoDoc

\* serde_json::from_value::<T>(doc) has answered `r`
Read(name, r) ==
    /\ pc' = "decoded"
    /\ shape' = name
    /\ val' = r
    /\ UNCHANGED <<doc, wire>>

\* a struct literal or an enum constructor has made one of `values`
Made(name, values) ==
    /\ pc' = "built"
    /\ shape' = name
    /\ \E v \in values : val' = Accepted(v)
    /\ UNCHANGED <<doc, wire>>

\* serde_json::to_value(&value) has answered `j`
Written(j) ==
    /\ pc' = "encoded"
    /\ wire' = j
    /\ UNCHANGED <<doc, shape, val>>

HasValue(name) == pc \in {"decoded", "built"} /\ shape = name /\ val.ok

Decoded(name) == pc = "decoded" /\ shape = name

Encoded(name) == pc = "encoded" /\ shape = name

\* the objects whose members are drawn, each present or not, from `allowed`
\* (member name -> the documents it may hold)
RECURSIVE ObjectsOver(_, _)
ObjectsOver(names, allowed) ==
    IF names = {} THEN {EmptyObj}
    ELSE LET n == CHOOSE x \in names : TRUE
             rest == ObjectsOver(names \ {n}, allowed)
         IN  rest \cup {Put(o, n, v) : o \in rest, v \in allowed[n]}

Obj1(k1, v1) == JObj(Put(EmptyObj, k1, v1))

Obj2(k1, v1, k2, v2) == JObj(Put(Put(EmptyObj, k1, v1), k2, v2))

\* the members of `o` added to, or put in place of, those of `base`
Merge(base, o) ==
    [x \in (DOMAIN base) \cup (DOMAIN o) |-> IF x \in DOMAIN o THEN o[x] ELSE base[x]]

\* the integers around the limits of u8, i32 and u32, and the small ones
MaxLo == 1

LimbMax == 256 * 256 - 1

IntDocs ==
    {JInt(neg, hi, lo) : neg \in BOOLEAN,
                         hi \in {0, I32MaxHi, I32MaxHi + 1, U32MaxHi, U32MaxHi + 1},
                         lo \in (0..MaxLo) \cup {U8Max, U8Max + 1, LimbMax}}
        \ {JInt(TRUE, 0, 0)}

\* strings, among them strings of digits and names of variants
StrDocs == {JStr(ToString(n)) : n \in 0..MaxLo} \cup {JStr(""), JStr("E5"), JStr("Integer")}

(***************************************************************************)
(* The JSON-RPC envelope: RequestMessage, ResponseMessage and              *)
(* NotificationMessage.                                                    *)
(***************************************************************************)
\* the bound on the integers used as request ids and error codes
MaxId == 1

IdDocs == {JNum(n) : n \in 0..MaxId} \cup {JStr("a")}

ErrorDoc == Obj2("code", JInt(TRUE, 0, 1), "message", JStr("e"))

MessageMembers ==
    [jsonrpc |-> {JStr("2.0")},
     id |-> {JNull} \cup IdDocs,
     method |-> {JStr("m")},
     params |-> {JArr(<<>>), JObj(EmptyObj)},
     result |-> {JNull, JStr("r"), Obj1("String", JStr("r"))},
     error |-> {JNull, ErrorDoc}]

MessageDocs == {JObj(o) : o \in ObjectsOver(DOMAIN MessageMembers, MessageMembers)}

\* the ResponseMessage values a struct literal can build
ResponseMessageValues ==
    {StructValue([jsonrpc |-> JStr("2.0"), id |-> i, result |-> r, error |-> e]) :
        i \in {None, Some(Variant("Integer", JNum(MaxId)))},
        r \in {None, Some(Variant("String", JStr("r")))},
        e \in {None, Some(StructValue([code |-> JInt(TRUE, 0, 1), message |-> JStr("e"),
                                       data |-> None]))}}

DecodeRequestMessage ==
    /\ pc = "start"
    /\ Read("RequestMessage", Decode(RequestMessage, doc))

DecodeResponseMessage ==
    /\ pc = "start"
    /\ Read("ResponseMessage", Decode(ResponseMessage, doc))

DecodeNotificationMessage ==
    /\ pc = "start"
    /\ Read("NotificationMessage", Decode(NotificationMessage, doc))

BuildResponseMessage ==
    /\ pc = "new"
    /\ Made("ResponseMessage", ResponseMessageValues)

EncodeRequestMessage ==
    /\ HasValue("RequestMessage")
    /\ Written(Encode(RequestMessage, val.v))

EncodeResponseMessage ==
    /\ HasValue("ResponseMessage")
    /\ Written(Encode(ResponseMessage, val.v))

EncodeNotificationMessage ==
    /\ HasValue("NotificationMessage")
    /\ Written(Encode(NotificationMessage, val.v))

Init == Start(MessageDocs) \/ Fresh

Next ==
    \/ DecodeRequestMessage
    \/ DecodeResponseMessage
    \/ DecodeNotificationMessage
    \/ BuildResponseMessage
    \/ EncodeRequestMessage
    \/ EncodeResponseMessage
    \/ EncodeNotificationMessage

Spec == Init /\ [][Next]_vars

(***************************************************************************)
(* LSPAny.  The documents are plain JSON nested to MaxDepth (what the      *)
(* protocol sends as `data`, `result`, experimental capabilities) and the  *)
(* documents the derived encoder writes for LSPAny values.                 *)
(***************************************************************************)
MaxDepth == 2

PlainLeaves ==
    {JNull, JBool(TRUE), JNum(1), JInt(TRUE, 0, 1), JFloat(FALSE, 0, 1, 5), JStr("a"),
     JArr(<<>>), JObj(EmptyObj)}

KeyedLeaves ==
    {Obj1("String", JStr("a")), Obj1("Integer", JInt(TRUE, 0, 1)),
     Obj1("UInteger", JNum(1)), Obj1("Decimal", JFloat(FALSE, 0, 1, 5)),
     Obj1("Boolean", JBool(TRUE))}

RECURSIVE AnyDocsTo(_)
AnyDocsTo(d) ==
    IF d = 0 THEN PlainLeaves \cup KeyedLeaves
    ELSE LET inner == AnyDocsTo(d - 1)
         IN  inner \cup {JArr(<<j>>) : j \in inner}
                   \cup {Obj1("a", j) : j \in inner}
                   \cup {Obj1("LSPArray", JArr(<<j>>)) : j \in inner}
                   \cup {Obj1("LSPObject", Obj1("a", j)) : j \in inner}

AnyDocs == AnyDocsTo(MaxDepth)

DecodeLSPAny ==
    /\ pc = "start"
    /\ Read("LSPAny", Decode(LSPAny, doc))

EncodeLSPAny ==
    /\ HasValue("LSPAny")
    /\ Written(Encode(LSPAny, val.v))

InitAny == Start(AnyDocs)

NextAny == DecodeLSPAny \/ EncodeLSPAny

SpecAny == InitAny /\ [][NextAny]_vars

(***************************************************************************)
(* Diagnostics: Diagnostic, PublishDiagnosticsParams and the               *)
(* IntegerOrString of Diagnostic.code.                                     *)
(***************************************************************************)
PositionDoc(l, c) == Obj2("line", JNum(l), "character", JNum(c))

RangeDoc == Obj2("start", PositionDoc(0, 0), "end", PositionDoc(0, 5))

RelatedDoc ==
    Obj2("location", Obj2("uri", JStr("file:///b.ts"), "range", RangeDoc),
         "message", JStr("first defined here"))

\* the least Diagnostic of the protocol: the required members alone
MinimalDiagnostic == Obj2("range", RangeDoc, "message", JStr("x is undefined"))

\* what the optional members of a Diagnostic hold on the wire of the
\* protocol (the first of each set) and in the documents the derived
\* encoder writes
DiagnosticOptional ==
    [severity |-> {JNum(1)},
     code |-> {JNum(5), JStr("E5")},
     codeDescription |-> {Obj1("href", JStr("https://e/5"))},
     source |-> {JStr("ts")},
     tags |-> {JArr(<<JNum(1)>>), JArr(<<JStr("Unnecessary")>>)},
     relatedInformation |-> {JArr(<<RelatedDoc>>)},
     data |-> {JStr("d"), Obj1("String", JStr("d"))}]

\* the greatest Diagnostic of the protocol: every optional member populated
MaximalDiagnostic ==
    JObj(Merge(MinimalDiagnostic.o,
               [severity |-> JNum(1), code |-> JNum(5),
                codeDescription |-> Obj1("href", JStr("https://e/5")),
                source |-> JStr("ts"), tags |-> JArr(<<JNum(1)>>),
                relatedInformation |-> JArr(<<RelatedDoc>>), data |-> JStr("d")]))

DiagnosticDocs ==
    {JObj(Merge(MinimalDiagnostic.o, o)) :
        o \in ObjectsOver(DOMAIN DiagnosticOptional, DiagnosticOptional)}

\* a Diagnostic with each integer and string as its code
CodeDiagnosticDocs ==
    {JObj(Put(MinimalDiagnostic.o, "code", c)) : c \in IntDocs \cup StrDocs}

PublishDoc(diagnostics) == Obj2("uri", JStr("file:///a.ts"), "diagnostics", JArr(diagnostics))

MinimalPublishDiagnostics == PublishDoc(<<>>)

MaximalPublishDiagnostics ==
    JObj(Put(PublishDoc(<<MaximalDiagnostic>>).o, "version", JNum(3)))

PublishDocs ==
    {MinimalPublishDiagnostics}
        \cup {PublishDoc(<<d>>) : d \in DiagnosticDocs}
        \cup {JObj(Put(PublishDoc(<<d>>).o, "version", JNum(3))) : d \in DiagnosticDocs}

PositionValue(l, c) == StructValue([line |-> JNum(l), character |-> JNum(c)])

RangeValue == StructValue([start |-> PositionValue(0, 0), end |-> PositionValue(0, 5)])

\* Diagnostic { range, severity, message, .. } with the other fields None
DiagnosticValues ==
    {StructValue([range |-> RangeValue, severity |-> sv, code |-> cd,
                  codeDescription |-> None, source |-> src,
                  message |-> JStr("x is undefined"), tags |-> None,
                  relatedInformation |-> None, data |-> None]) :
        sv \in {None, Some(Variant("Error", UnitValue))},
        cd \in {None, Some(Variant("Integer", JNum(5)))},
        src \in {None, Some(JStr("ts"))}}

PublishDiagnosticsParamsValues ==
    {StructValue([uri |-> JStr("file:///a.ts"), version |-> vn,
                  diagnostics |-> VecValue(<<d>>)]) :
        vn \in {None, Some(JNum(3))}, d \in DiagnosticValues}

DecodeIntegerOrString ==
    /\ pc = "start"
    /\ Read("IntegerOrString", Decode(IntegerOrString, doc))

DecodeDiagnostic ==
    /\ pc = "start"
    /\ Read("Diagnostic", Decode(Diagnostic, doc))

DecodePublishDiagnosticsParams ==
    /\ pc = "start"
    /\ Read("PublishDiagnosticsParams", Decode(PublishDiagnosticsParams, doc))

BuildPublishDiagnosticsParams ==
    /\ pc = "new"
    /\ Made("PublishDiagnosticsParams", PublishDiagnosticsParamsValues)

EncodeIntegerOrString ==
    /\ HasValue("IntegerOrString")
    /\ Written(Encode(IntegerOrString, val.v))

EncodeDiagnostic ==
    /\ HasValue("Diagnostic")
    /\ Written(Encode(Diagnostic, val.v))

EncodePublishDiagnosticsParams ==
    /\ HasValue("PublishDiagnosticsParams")
    /\ Written(Encode(PublishDiagnosticsParams, val.v))

InitDiag ==
    Start(IntDocs \cup StrDocs \cup DiagnosticDocs \cup CodeDiagnosticDocs \cup PublishDocs)
        \/ Fresh

NextDiag ==
    \/ DecodeIntegerOrString
    \/ DecodeDiagnostic
    \/ DecodePublishDiagnosticsParams
    \/ BuildPublishDiagnosticsParams
    \/ EncodeIntegerOrString
    \/ EncodeDiagnostic
    \/ EncodePublishDiagnosticsParams

SpecDiag == InitDiag /\ [][NextDiag]_vars

(***************************************************************************)
(* OptionalVersionedTextDocumentIdentifier: the member `version` left      *)
(* out, null, or an integer.                                               *)
(***************************************************************************)
IdentifierDoc == Obj1("uri", JStr("file:///a.ts"))

VersionDocs == {JNull} \cup IntDocs

IdentifierDocs == {IdentifierDoc} \cup {JObj(Put(IdentifierDoc.o, "version", v)) : v \in VersionDocs}

IdentifierValues ==
    {StructValue([uri |-> JStr("file:///a.ts"), version |-> vn]) :
        vn \in {None} \cup {Some(JNum(n)) : n \in 0..MaxLo}}

DecodeOptionalVersionedTextDocumentIdentifier ==
    /\ pc = "start"
    /\ Read("OptionalVersionedTextDocumentIdentifier",
            Decode(OptionalVersionedTextDocumentIdentifier, doc))

BuildOptionalVersionedTextDocumentIdentifier ==
    /\ pc = "new"
    /\ Made("OptionalVersionedTextDocumentIdentifier", IdentifierValues)

EncodeOptionalVersionedTextDocumentIdentifier ==
    /\ HasValue("OptionalVersionedTextDocumentIdentifier")
    /\ Written(Encode(OptionalVersionedTextDocumentIdentifier, val.v))

InitIdentifier == Start(IdentifierDocs \cup VersionDocs) \/ Fresh

NextIdentifier ==
    \/ DecodeOptionalVersionedTextDocumentIdentifier
    \/ BuildOptionalVersionedTextDocumentIdentifier
    \/ EncodeOptionalVersionedTextDocumentIdentifier

SpecIdentifier == InitIdentifier /\ [][NextIdentifier]_vars

(***************************************************************************)
(* Hover: HoverContents, MarkedString, MarkupContent.                      *)
(***************************************************************************)
\* the bound on the length of an array of marked strings
MaxItems == 2

ContentsMembers ==
    [language |-> {JStr("rust"), JNum(1)},
     value |-> {JStr("fn f()"), JNum(1)},
     kind |-> {JStr("markdown"), JStr("plaintext"), JStr("html")}]

ContentsObjects == {JObj(o) : o \in ObjectsOver(DOMAIN ContentsMembers, ContentsMembers)}

LanguageStringDoc == Obj2("language", JStr("rust"), "value", JStr("fn f()"))

MarkupContentDoc == Obj2("kind", JStr("markdown"), "value", JStr("fn f()"))

ItemDocs == {JStr("hi"), LanguageStringDoc, MarkupContentDoc, JNum(1)}

ContentsArrays ==
    {JArr(a) : a \in UNION {[1..n -> ItemDocs] : n \in 0..MaxItems}}

ContentsDocs == {JStr("hi"), JStr("")} \cup ContentsObjects \cup ContentsArrays

HoverDocs ==
    {Obj1("contents", c) : c \in ContentsDocs}
        \cup {Obj2("contents", c, "range", RangeDoc) : c \in ContentsDocs}

MarkedStringValues ==
    {Variant("String", JStr("hi")),
     Variant("LanguageString",
             StructValue([language |-> JStr("rust"), value |-> JStr("fn f()")]))}

HoverContentsValues ==
    {Variant("MarkedString", m) : m \in MarkedStringValues}
        \cup {Variant("MarkedStringArray", VecValue(a)) :
                 a \in UNION {[1..n -> MarkedStringValues] : n \in 0..MaxItems}}
        \cup {Variant("MarkupContent",
                      StructValue([kind |-> Variant(k, UnitValue), value |-> JStr("fn f()")])) :
                 k \in {"PlainText", "Markdown"}}

DecodeHoverContents ==
    /\ pc = "start"
    /\ Read("HoverContents", Decode(HoverContents, doc))

DecodeHover ==
    /\ pc = "start"
    /\ Read("Hover", Decode(Hover, doc))

BuildHoverContents ==
    /\ pc = "new"
    /\ Made("HoverContents", HoverContentsValues)

EncodeHoverContents ==
    /\ HasValue("HoverContents")
    /\ Written(Encode(HoverContents, val.v))

EncodeHover ==
    /\ HasValue("Hover")
    /\ Written(Encode(Hover, val.v))

InitHover == Start(ContentsDocs \cup HoverDocs) \/ Fresh

NextHover ==
    \/ DecodeHoverContents
    \/ DecodeHover
    \/ BuildHoverContents
    \/ EncodeHoverContents
    \/ EncodeHover

SpecHover == InitHover /\ [][NextHover]_vars

(***************************************************************************)
(* The unions declared as enums whose variants carry data: ProgressToken,  *)
(* TextEditOrAnnotatedTextEdit, BooleanOrSaveOptions and                   *)
(* SemanticTokensOptionsFull.  The documents are the JSON of each          *)
(* alternative, bare and as the one member of an object named after the    *)
(* variant.                                                                *)
(***************************************************************************)
TextEditDoc == Obj2("range", RangeDoc, "newText", JStr("y"))

AnnotatedTextEditDoc == JObj(Put(TextEditDoc.o, "annotationId", JStr("an")))

BareDocs ==
    IntDocs \cup StrDocs \cup {JBool(TRUE), JBool(FALSE)}
        \cup {TextEditDoc, AnnotatedTextEditDoc}
        \cup {JObj(EmptyObj), Obj1("includeText", JBool(TRUE)), Obj1("delta", JBool(TRUE))}

VariantNames ==
    {"Integer", "String", "TextEdit", "AnnotatedTextEdit", "Boolean", "SaveOptions",
     "SemanticTokensOptionsFullDelta"}

KeyedDocs == {Obj1(n, j) : n \in VariantNames, j \in BareDocs}

ProgressTokenValues ==
    {Variant("Integer", JNum(n)) : n \in 0..MaxLo} \cup {Variant("String", JStr("t"))}

DecodeProgressToken ==
    /\ pc = "start"
    /\ Read("ProgressToken", Decode(ProgressToken, doc))

DecodeTextEditOrAnnotatedTextEdit ==
    /\ pc = "start"
    /\ Read("TextEditOrAnnotatedTextEdit", Decode(TextEditOrAnnotatedTextEdit, doc))

DecodeBooleanOrSaveOptions ==
    /\ pc = "start"
    /\ Read("BooleanOrSaveOptions", Decode(BooleanOrSaveOptions, doc))

DecodeSemanticTokensOptionsFull ==
    /\ pc = "start"
    /\ Read("SemanticTokensOptionsFull", Decode(SemanticTokensOptionsFull, doc))

BuildProgressToken ==
    /\ pc = "new"
    /\ Made("ProgressToken", ProgressTokenValues)

EncodeProgressToken ==
    /\ HasValue("ProgressToken")
    /\ Written(Encode(ProgressToken, val.v))

EncodeTextEditOrAnnotatedTextEdit ==
    /\ HasValue("TextEditOrAnnotatedTextEdit")
    /\ Written(Encode(TextEditOrAnnotatedTextEdit, val.v))

EncodeBooleanOrSaveOptions ==
    /\ HasValue("BooleanOrSaveOptions")
    /\ Written(Encode(BooleanOrSaveOptions, val.v))

EncodeSemanticTokensOptionsFull ==
    /\ HasValue("SemanticTokensOptionsFull")
    /\ Written(Encode(SemanticTokensOptionsFull, val.v))

InitUnion == Start(BareDocs \cup KeyedDocs) \/ Fresh

NextUnion ==
    \/ DecodeProgressToken
    \/ DecodeTextEditOrAnnotatedTextEdit
    \/ DecodeBooleanOrSaveOptions
    \/ DecodeSemanticTokensOptionsFull
    \/ BuildProgressToken
    \/ EncodeProgressToken
    \/ EncodeTextEditOrAnnotatedTextEdit
    \/ EncodeBooleanOrSaveOptions
    \/ EncodeSemanticTokensOptionsFull

SpecUnion == InitUnion /\ [][NextUnion]_vars


(***************************************************************************)
(* The enumerations declared with integer values: DiagnosticSeverity,      *)
(* DiagnosticTag, TextDocumentSyncKind, SymbolKind, InsertTextMode and     *)
(* CompletionItemKind.  The documents are the integers from 0 to past the  *)
(* largest declared value and around the limits of u8, i32 and u32, the    *)
(* names of variants as strings, and both as the one member of an object.  *)
(***************************************************************************)
\* the largest integer tried as a kind: one past SymbolKind::TypeParameter
MaxKind == 27

KindNames ==
    {"Error", "Hint", "Unnecessary", "Deprecated", "None", "Incremental", "File",
     "TypeParameter", "asIs", "adjustIndentation", "Text"}

KindDocs ==
    {JNum(n) : n \in 0..MaxKind} \cup IntDocs \cup StrDocs
        \cup {JStr(n) : n \in KindNames}
        \cup {Obj1(n, JNull) : n \in KindNames}
        \cup {Obj1(n, JNum(1)) : n \in KindNames}
        \cup {JNull, JFloat(FALSE, 0, 1, 5)}

DecodeDiagnosticSeverity ==
    /\ pc = "start"
    /\ Read("DiagnosticSeverity", Decode(DiagnosticSeverity, doc))

DecodeDiagnosticTag ==
    /\ pc = "start"
    /\ Read("DiagnosticTag", Decode(DiagnosticTag, doc))

DecodeTextDocumentSyncKind ==
    /\ pc = "start"
    /\ Read("TextDocumentSyncKind", Decode(TextDocumentSyncKind, doc))

DecodeSymbolKind ==
    /\ pc = "start"
    /\ Read("SymbolKind", Decode(SymbolKind, doc))

DecodeInsertTextMode ==
    /\ pc = "start"
    /\ Read("InsertTextMode", Decode(InsertTextMode, doc))

DecodeCompletionItemKind ==
    /\ pc = "start"
    /\ Read("CompletionItemKind", Decode(CompletionItemKind, doc))

EncodeDiagnosticSeverity ==
    /\ HasValue("DiagnosticSeverity")
    /\ Written(Encode(DiagnosticSeverity, val.v))

EncodeDiagnosticTag ==
    /\ HasValue("DiagnosticTag")
    /\ Written(Encode(DiagnosticTag, val.v))

EncodeTextDocumentSyncKind ==
    /\ HasValue("TextDocumentSyncKind")
    /\ Written(Encode(TextDocumentSyncKind, val.v))

EncodeSymbolKind ==
    /\ HasValue("SymbolKind")
    /\ Written(Encode(SymbolKind, val.v))

EncodeInsertTextMode ==
    /\ HasValue("InsertTextMode")
    /\ Written(Encode(InsertTextMode, val.v))

EncodeCompletionItemKind ==
    /\ HasValue("CompletionItemKind")
    /\ Written(Encode(CompletionItemKind, val.v))

InitEnum == Start(KindDocs)

NextEnum ==
    \/ DecodeDiagnosticSeverity
    \/ DecodeDiagnosticTag
    \/ DecodeTextDocumentSyncKind
    \/ DecodeSymbolKind
    \/ DecodeInsertTextMode
    \/ DecodeCompletionItemKind
    \/ EncodeDiagnosticSeverity
    \/ EncodeDiagnosticTag
    \/ EncodeTextDocumentSyncKind
    \/ EncodeSymbolKind
    \/ EncodeInsertTextMode
    \/ EncodeCompletionItemKind

SpecEnum == InitEnum /\ [][NextEnum]_vars

(***************************************************************************)
(* The enumerations of strings: MarkupKind, ResourceOperationKind,         *)
(* TraceValue, FoldingRangeKind, CodeActionKind and                        *)
(* FileOperationPatternKind.  The documents are the literals of the        *)
(* source, the names of the variants, other strings, and each of them as   *)
(* the one member of an object.                                            *)
(***************************************************************************)
KindLiterals ==
    {"plaintext", "markdown", "create", "rename", "delete", "off", "messages", "verbose",
     "comment", "imports", "region", "", "quickfix", "refactor", "refactor.extract",
     "refactor.inline", "refactor.rewrite", "source", "source.organizeImports",
     "source.fixAll", "file", "folder"}

OtherStrings ==
    {"PlainText", "Markdown", "Create", "Off", "Messages", "Verbose", "Comment", "QuickFix",
     "File", "Folder", "PLAINTEXT", "OFF", "refactor.extract.function", "custom"}

LiteralDocs ==
    {JStr(s) : s \in KindLiterals \cup OtherStrings}
        \cup {Obj1(s, JNull) : s \in KindLiterals \cup OtherStrings}
        \cup {Obj1(s, JStr(s)) : s \in KindLiterals}
        \cup {Obj2("off", JNull, "verbose", JNull), JObj(EmptyObj), JNull, JArr(<<JStr("off")>>)}
        \cup {JNum(n) : n \in 0..MaxLo}

DecodeMarkupKind ==
    /\ pc = "start"
    /\ Read("MarkupKind", Decode(MarkupKind, doc))

DecodeResourceOperationKind ==
    /\ pc = "start"
    /\ Read("ResourceOperationKind", Decode(ResourceOperationKind, doc))

DecodeTraceValue ==
    /\ pc = "start"
    /\ Read("TraceValue", Decode(TraceValue, doc))

DecodeFoldingRangeKind ==
    /\ pc = "start"
    /\ Read("FoldingRangeKind", Decode(FoldingRangeKind, doc))

DecodeCodeActionKind ==
    /\ pc = "start"
    /\ Read("CodeActionKind", Decode(CodeActionKind, doc))

DecodeFileOperationPatternKind ==
    /\ pc = "start"
    /\ Read("FileOperationPatternKind", Decode(FileOperationPatternKind, doc))

EncodeMarkupKind ==
    /\ HasValue("MarkupKind")
    /\ Written(Encode(MarkupKind, val.v))

EncodeResourceOperationKind ==
    /\ HasValue("ResourceOperationKind")
    /\ Written(Encode(ResourceOperationKind, val.v))

EncodeTraceValue ==
    /\ HasValue("TraceValue")
    /\ Written(Encode(TraceValue, val.v))

EncodeFoldingRangeKind ==
    /\ HasValue("FoldingRangeKind")
    /\ Written(Encode(FoldingRangeKind, val.v))

EncodeCodeActionKind ==
    /\ HasValue("CodeActionKind")
    /\ Written(Encode(CodeActionKind, val.v))

EncodeFileOperationPatternKind ==
    /\ HasValue("FileOperationPatternKind")
    /\ Written(Encode(FileOperationPatternKind, val.v))

InitLiteral == Start(LiteralDocs)

NextLiteral ==
    \/ DecodeMarkupKind
    \/ DecodeResourceOperationKind
    \/ DecodeTraceValue
    \/ DecodeFoldingRangeKind
    \/ DecodeCodeActionKind
    \/ DecodeFileOperationPatternKind
    \/ EncodeMarkupKind
    \/ EncodeResourceOperationKind
    \/ EncodeTraceValue
    \/ EncodeFoldingRangeKind
    \/ EncodeCodeActionKind
    \/ EncodeFileOperationPatternKind

SpecLiteral == InitLiteral /\ [][NextLiteral]_vars


(***************************************************************************)
(* WorkspaceEdit.  The documents hold `changes`, `documentChanges` and     *)
(* `changeAnnotations`, each present or not; `documentChanges` is null or  *)
(* an array of up to MaxItems entries, each a TextDocumentEdit (without    *)
(* edits, with a TextEdit as it is on the wire, with a TextEdit keyed by   *)
(* the variant's name) or a create, rename or delete operation.            *)
(***************************************************************************)
TextDocumentEditDoc(uri, edits) ==
    Obj2("textDocument", Obj2("uri", JStr(uri), "version", JNum(1)), "edits", JArr(edits))

TextDocumentEditDocs ==
    {TextDocumentEditDoc("file:///a.ts", <<>>),
     TextDocumentEditDoc("file:///b.ts", <<TextEditDoc>>)}

KeyedEditDoc == TextDocumentEditDoc("file:///c.ts", <<Obj1("TextEdit", TextEditDoc)>>)

CreateFileDoc == Obj2("kind", JStr("create"), "uri", JStr("file:///n.ts"))

RenameFileDoc ==
    JObj(Put(Obj2("kind", JStr("rename"), "oldUri", JStr("file:///a.ts")).o,
             "newUri", JStr("file:///r.ts")))

DeleteFileDoc == Obj2("kind", JStr("delete"), "uri", JStr("file:///a.ts"))

FileOperationDocs == {CreateFileDoc, RenameFileDoc, DeleteFileDoc}

EntryDocs == TextDocumentEditDocs \cup {KeyedEditDoc} \cup FileOperationDocs

WorkspaceEditMembers ==
    [changes |-> {JNull, JObj(EmptyObj), Obj1("file:///a.ts", JArr(<<TextEditDoc>>))},
     documentChanges |->
         {JNull} \cup {JArr(a) : a \in UNION {[1..n -> EntryDocs] : n \in 0..MaxItems}},
     changeAnnotations |-> {Obj1("an", Obj1("label", JStr("l")))}]

WorkspaceEditDocs ==
    {JObj(o) : o \in ObjectsOver(DOMAIN WorkspaceEditMembers, WorkspaceEditMembers)}

\* the WorkspaceEdit values a struct literal can build
WorkspaceEditValues ==
    {StructValue([changes |-> c, documentChanges |-> d, changeAnnotations |-> None]) :
        c \in {None, Some(MapValue([u \in {"file:///a.ts"} |-> VecValue(<<>>)]))},
        d \in {None, Some(Variant("TextDocumentEdit", VecValue(<<>>)))}}

DecodeWorkspaceEdit ==
    /\ pc = "start"
    /\ Read("WorkspaceEdit", Decode(WorkspaceEdit, doc))

BuildWorkspaceEdit ==
    /\ pc = "new"
    /\ Made("WorkspaceEdit", WorkspaceEditValues)

EncodeWorkspaceEdit ==
    /\ HasValue("WorkspaceEdit")
    /\ Written(Encode(WorkspaceEdit, val.v))

InitEdit == Start(WorkspaceEditDocs) \/ Fresh

NextEdit ==
    \/ DecodeWorkspaceEdit
    \/ BuildWorkspaceEdit
    \/ EncodeWorkspaceEdit

SpecEdit == InitEdit /\ [][NextEdit]_vars

(***************************************************************************)
(* ResponseError and the constants of ErrorCodes.  A ResponseError is      *)
(* built with the code of a constant taken by name (the message is the     *)
(* name), or decoded from a document.                                      *)
(***************************************************************************)
\* an i32 of the program as the JSON integer it is written as
IntegerDoc(n) ==
    LET m == IF n < 0 THEN -n ELSE n
    IN  JInt(n < 0, m \div (LimbMax + 1), m % (LimbMax + 1))

ResponseErrorDocs ==
    {JObj(o) : o \in ObjectsOver({"code", "message", "data"},
                                 [code |-> IntDocs \cup {IntegerDoc(ErrorCodes[n]) :
                                                            n \in DOMAIN ErrorCodes},
                                  message |-> {JStr("e")},
                                  data |-> {JNull, Obj1("String", JStr("d"))}])}

\* ResponseError { code: ErrorCodes::<name>, message: "<name>".into(), data }
ResponseErrorValues ==
    {StructValue([code |-> IntegerDoc(ErrorCodes[n]), message |-> JStr(n), data |-> d]) :
        n \in DOMAIN ErrorCodes, d \in {None, Some(Variant("String", JStr("d")))}}

DecodeResponseError ==
    /\ pc = "start"
    /\ Read("ResponseError", Decode(ResponseError, doc))

BuildResponseError ==
    /\ pc = "new"
    /\ Made("ResponseError", ResponseErrorValues)

EncodeResponseError ==
    /\ HasValue("ResponseError")
    /\ Written(Encode(ResponseError, val.v))

InitError == Start(ResponseErrorDocs) \/ Fresh

NextError ==
    \/ DecodeResponseError
    \/ BuildResponseError
    \/ EncodeResponseError

SpecError == InitError /\ [][NextError]_vars


(***************************************************************************)
(* Integer and UInteger as the types of fields: Position.line and          *)
(* Position.character are UInteger,                                        *)
(* OptionalVersionedTextDocumentIdentifier.version is Integer.  The        *)
(* documents hold the integers around the limits of i32 and u32.           *)
(***************************************************************************)
PositionDocs ==
    {Obj2("line", n, "character", JNum(0)) : n \in IntDocs}
        \cup {Obj2("line", JNum(0), "character", n) : n \in IntDocs}

DecodePosition ==
    /\ pc = "start"
    /\ Read("Position", Decode(Position, doc))

EncodePosition ==
    /\ HasValue("Position")
    /\ Written(Encode(Position, val.v))

InitInteger == Start(PositionDocs \cup IdentifierDocs)

NextInteger ==
    \/ DecodePosition
    \/ DecodeOptionalVersionedTextDocumentIdentifier
    \/ EncodePosition
    \/ EncodeOptionalVersionedTextDocumentIdentifier

SpecInteger == InitInteger /\ [][NextInteger]_vars

(***************************************************************************)
(* WatchKind and FileSystemWatcher.  The documents are the integers from 0 *)
(* to MaxWatch and around the limits, and watchers with and without        *)
(* `kind`, over a string pattern and over relative patterns.               *)
(***************************************************************************)
\* the largest integer tried as a kind: one past Create | Change | Delete
MaxWatch == 8

WatchKindDocs == {JNum(n) : n \in 0..MaxWatch} \cup IntDocs \cup {JNull, JStr("Create")}

GlobPatternDocs ==
    {JStr("**/*.rs"),
     Obj2("baseUri", JStr("file:///w"), "pattern", JStr("*.rs")),
     Obj2("baseUri", Obj2("uri", JStr("file:///w"), "name", JStr("w")),
          "pattern", JStr("*.rs"))}

FileSystemWatcherDocs ==
    {Obj1("globPattern", g) : g \in GlobPatternDocs}
        \cup {Obj2("globPattern", g, "kind", k) : g \in GlobPatternDocs, k \in WatchKindDocs}

DecodeWatchKind ==
    /\ pc = "start"
    /\ Read("WatchKind", Decode(WatchKind, doc))

DecodeFileSystemWatcher ==
    /\ pc = "start"
    /\ Read("FileSystemWatcher", Decode(FileSystemWatcher, doc))

EncodeWatchKind ==
    /\ HasValue("WatchKind")
    /\ Written(Encode(WatchKind, val.v))

EncodeFileSystemWatcher ==
    /\ HasValue("FileSystemWatcher")
    /\ Written(Encode(FileSystemWatcher, val.v))

InitWatch == Start(WatchKindDocs \cup FileSystemWatcherDocs)

NextWatch ==
    \/ DecodeWatchKind
    \/ DecodeFileSystemWatcher
    \/ EncodeWatchKind
    \/ EncodeFileSystemWatcher

SpecWatch == InitWatch /\ [][NextWatch]_vars

(***************************************************************************)
(* TextDocumentContentChangeEvent.  The documents hold `range`,            *)
(* `rangeLength` and `text`, each present or not, well formed or not.      *)
(***************************************************************************)
ChangeMembers ==
    [range |-> {RangeDoc, JNull, Obj1("start", PositionDoc(0, 0)),
                Obj2("start", PositionDoc(0, 0), "end", JStr("5"))},
     rangeLength |-> {JNull, JInt(TRUE, 0, 1), JStr("5")} \cup {JNum(n) : n \in 0..MaxLo},
     text |-> {JStr(""), JStr("x"), JNum(0)}]

ChangeDocs == {JObj(o) : o \in ObjectsOver(DOMAIN ChangeMembers, ChangeMembers)}

DecodeTextDocumentContentChangeEvent ==
    /\ pc = "start"
    /\ Read("TextDocumentContentChangeEvent", Decode(TextDocumentContentChangeEvent, doc))

EncodeTextDocumentContentChangeEvent ==
    /\ HasValue("TextDocumentContentChangeEvent")
    /\ Written(Encode(TextDocumentContentChangeEvent, val.v))

InitChange == Start(ChangeDocs \cup {JStr("x"), JNull})

NextChange ==
    \/ DecodeTextDocumentContentChangeEvent
    \/ EncodeTextDocumentContentChangeEvent

SpecChange == InitChange /\ [][NextChange]_vars

(***************************************************************************)
(* EOL.  The documents are the three line endings, the names of the        *)
(* variants, null, and other strings and integers; a value is also made    *)
(* directly.                                                               *)
(***************************************************************************)
EOLStrings == {"\n", "\r\n", "\r"}

EOLDocs ==
    {JStr(s) : s \in EOLStrings \cup {"LF", "CRLF", "CR"}}
        \cup {Obj1(s, JNull) : s \in EOLStrings}
        \cup {JNull} \cup StrDocs \cup IntDocs

EOLValues == {Variant(n, UnitValue) : n \in {"LF", "CRLF", "CR"}}

DecodeEOL ==
    /\ pc = "start"
    /\ Read("EOL", Decode(EOL, doc))

BuildEOL ==
    /\ pc = "new"
    /\ Made("EOL", EOLValues)

EncodeEOL ==
    /\ HasValue("EOL")
    /\ Written(Encode(EOL, val.v))

InitEOL == Start(EOLDocs) \/ Fresh

NextEOL ==
    \/ DecodeEOL
    \/ BuildEOL
    \/ EncodeEOL

SpecEOL == InitEOL /\ [][NextEOL]_vars

(***************************************************************************)
(* The payloads of work-done progress: WorkDoneProgressBegin,              *)
(* WorkDoneProgressReport and WorkDoneProgressEnd.  The documents hold     *)
(* `kind` (one of the three literals, or another string) and the other     *)
(* members, each present or not.                                           *)
(***************************************************************************)
ProgressMembers ==
    [kind |-> {JStr("begin"), JStr("report"), JStr("end"), JStr("Begin"), JStr("other")},
     title |-> {JStr("t")},
     cancellable |-> {JBool(TRUE)},
     message |-> {JStr("m")},
     percentage |-> {JNum(n) : n \in 0..MaxLo}]

ProgressDocs == {JObj(o) : o \in ObjectsOver(DOMAIN ProgressMembers, ProgressMembers)}

ProgressKinds == {Variant(n, UnitValue) : n \in {"Begin", "Report", "End"}}

\* the values a struct literal can build: `kind` is any WorkDoneProgress
WorkDoneProgressBeginValues ==
    {StructValue([kind |-> k, title |-> JStr("t"), cancellable |-> None, message |-> m,
                  percentage |-> None]) : k \in ProgressKinds, m \in {None, Some(JStr("m"))}}

WorkDoneProgressReportValues ==
    {StructValue([kind |-> k, cancellable |-> None, message |-> m, percentage |-> None]) :
        k \in ProgressKinds, m \in {None, Some(JStr("m"))}}

WorkDoneProgressEndValues ==
    {StructValue([kind |-> k, message |-> m]) : k \in ProgressKinds, m \in {None, Some(JStr("m"))}}

DecodeWorkDoneProgressBegin ==
    /\ pc = "start"
    /\ Read("WorkDoneProgressBegin", Decode(WorkDoneProgressBegin, doc))

DecodeWorkDoneProgressReport ==
    /\ pc = "start"
    /\ Read("WorkDoneProgressReport", Decode(WorkDoneProgressReport, doc))

DecodeWorkDoneProgressEnd ==
    /\ pc = "start"
    /\ Read("WorkDoneProgressEnd", Decode(WorkDoneProgressEnd, doc))

BuildWorkDoneProgressBegin ==
    /\ pc = "new"
    /\ Made("WorkDoneProgressBegin", WorkDoneProgressBeginValues)

BuildWorkDoneProgressReport ==
    /\ pc = "new"
    /\ Made("WorkDoneProgressReport", WorkDoneProgressReportValues)

BuildWorkDoneProgressEnd ==
    /\ pc = "new"
    /\ Made("WorkDoneProgressEnd", WorkDoneProgressEndValues)

EncodeWorkDoneProgressBegin ==
    /\ HasValue("WorkDoneProgressBegin")
    /\ Written(Encode(WorkDoneProgressBegin, val.v))

EncodeWorkDoneProgressReport ==
    /\ HasValue("WorkDoneProgressReport")
    /\ Written(Encode(WorkDoneProgressReport, val.v))

EncodeWorkDoneProgressEnd ==
    /\ HasValue("WorkDoneProgressEnd")
    /\ Written(Encode(WorkDoneProgressEnd, val.v))

InitProgress == Start(ProgressDocs) \/ Fresh

NextProgress ==
    \/ DecodeWorkDoneProgressBegin
    \/ DecodeWorkDoneProgressReport
    \/ DecodeWorkDoneProgressEnd
    \/ BuildWorkDoneProgressBegin
    \/ BuildWorkDoneProgressReport
    \/ BuildWorkDoneProgressEnd
    \/ EncodeWorkDoneProgressBegin
    \/ EncodeWorkDoneProgressReport
    \/ EncodeWorkDoneProgressEnd

SpecProgress == InitProgress /\ [][NextProgress]_vars

(***************************************************************************)
(* C1.  Decoding a JSON object as a ResponseMessage succeeds only when     *)
(* exactly one of the members `result` and `error` is present: with both   *)
(* present, and with neither, the object is rejected.                      *)
(***************************************************************************)
C1_ResultXorError ==
    (Decoded("ResponseMessage") /\ doc.t = "obj" /\ val.ok)
        => (Has(doc, "result") # Has(doc, "error"))

(***************************************************************************)
(* C2.  Every ResponseMessage value, decoded or constructed, has `error`   *)
(* present if and only if `result` is absent.                              *)
(***************************************************************************)
C2_ErrorIffNoResult ==
    (shape = "ResponseMessage" /\ pc \in {"decoded", "built"} /\ val.ok)
        => ((val.v.f.error.t = "some") <=> (val.v.f.result.t = "none"))

(***************************************************************************)
(* C3.  For the minimal and the maximal document of a message shape,       *)
(* decoding succeeds and encoding the decoded value gives the document     *)
(* back.                                                                   *)
(***************************************************************************)
C3_WireRoundTrip ==
    LET documented ==
            CASE shape = "Diagnostic" -> {MinimalDiagnostic, MaximalDiagnostic}
              [] shape = "PublishDiagnosticsParams" ->
                   {MinimalPublishDiagnostics, MaximalPublishDiagnostics}
              [] OTHER -> {}
    IN  doc \in documented
            => /\ pc = "decoded" => val.ok
               /\ pc = "encoded" => wire = doc

AbsentOmitted(v, j) == \A f \in DOMAIN v.f : v.f[f].t = "none" => f \notin DOMAIN j.o

(***************************************************************************)
(* C4.  Encoding a struct value whose optional field is absent leaves the  *)
(* member out of the JSON object; so for a PublishDiagnosticsParams and    *)
(* for each Diagnostic in it.                                              *)
(***************************************************************************)
C4_AbsentOmitted ==
    /\ Encoded("Diagnostic") => AbsentOmitted(val.v, wire)
    /\ Encoded("PublishDiagnosticsParams")
           => /\ AbsentOmitted(val.v, wire)
              /\ \A i \in 1..Len(val.v.f.diagnostics.a) :
                     AbsentOmitted(val.v.f.diagnostics.a[i], wire.o.diagnostics.a[i])

WithNullVersion(j) == JObj(Put(j.o, "version", JNull))

(***************************************************************************)
(* C5.  For OptionalVersionedTextDocumentIdentifier.version the wire       *)
(* states "omitted", "null" and "an integer" decode to three               *)
(* distinguishable values, and each value encodes to the wire state it     *)
(* was decoded from.                                                       *)
(***************************************************************************)
C5_VersionThreeStates ==
    LET T == OptionalVersionedTextDocumentIdentifier
    IN  /\ (Decoded("OptionalVersionedTextDocumentIdentifier") /\ val.ok
               /\ doc.t = "obj" /\ ~Has(doc, "version"))
               => val # Decode(T, WithNullVersion(doc))
        /\ (Encoded("OptionalVersionedTextDocumentIdentifier") /\ doc.t = "obj")
               => /\ Has(wire, "version") <=> Has(doc, "version")
                  /\ Has(doc, "version") => wire.o.version = doc.o.version

(***************************************************************************)
(* C6.  Every JSON value (object, array, string, number, boolean, null,    *)
(* nested) decodes as LSPAny and encodes back to the same JSON value.      *)
(***************************************************************************)
C6_AnyJsonRoundTrips ==
    /\ Decoded("LSPAny") => val.ok
    /\ Encoded("LSPAny") => wire = doc

(***************************************************************************)
(* C7.  No JSON object decodes as more than one of RequestMessage,         *)
(* ResponseMessage and NotificationMessage.                                *)
(***************************************************************************)
C7_EnvelopesDisjoint ==
    (pc = "decoded" /\ doc.t = "obj" /\ val.ok)
        => /\ shape # "RequestMessage" => ~Decode(RequestMessage, doc).ok
           /\ shape # "ResponseMessage" => ~Decode(ResponseMessage, doc).ok
           /\ shape # "NotificationMessage" => ~Decode(NotificationMessage, doc).ok

VariantFor(j) == IF j.t = "str" THEN Variant("String", j) ELSE Variant("Integer", j)

IsCode(j) == j.t = "str" \/ (j.t = "int" /\ FitsI32(j))

(***************************************************************************)
(* C8.  An IntegerOrString decodes from a JSON integer of the 32-bit       *)
(* signed range as the Integer variant holding that integer and from a     *)
(* JSON string, a string of digits included, as the String variant         *)
(* holding that string; so does the code of a Diagnostic.                  *)
(***************************************************************************)
C8_IntegerOrStringVariant ==
    /\ (Decoded("IntegerOrString") /\ IsCode(doc)) => val = Accepted(VariantFor(doc))
    /\ (Decoded("Diagnostic") /\ doc \in CodeDiagnosticDocs /\ IsCode(doc.o.code))
           => val.ok /\ val.v.f.code = Some(VariantFor(doc.o.code))

\* the code "1", a string of digits, has been read as a String
C8_Witness ==
    /\ Decoded("Diagnostic") /\ doc \in CodeDiagnosticDocs /\ val.ok
    /\ doc.o.code = JStr("1")
    /\ val.v.f.code = Some(Variant("String", JStr("1")))

IsStr(j, m) == Has(j, m) /\ j.o[m].t = "str"

IsLanguageString(j) == IsStr(j, "language") /\ IsStr(j, "value")

IsMarkedString(j) == j.t = "str" \/ IsLanguageString(j)

IsMarkup(j) ==
    IsStr(j, "kind") /\ j.o.kind.s \in {"plaintext", "markdown"} /\ IsStr(j, "value")

MarkedStringOf(j) ==
    IF j.t = "str" THEN Variant("String", j)
    ELSE Variant("LanguageString", StructValue([language |-> j.o.language, value |-> j.o.value]))

\* the value the order of declaration gives for the document
ContentsOf(j) ==
    CASE IsMarkedString(j) -> Accepted(Variant("MarkedString", MarkedStringOf(j)))
      [] j.t = "arr" /\ \A i \in 1..Len(j.a) : IsMarkedString(j.a[i]) ->
           Accepted(Variant("MarkedStringArray",
                            VecValue([i \in 1..Len(j.a) |-> MarkedStringOf(j.a[i])])))
      [] ~IsMarkedString(j) /\ IsMarkup(j) ->
           Accepted(Variant("MarkupContent",
                            StructValue([kind |-> Variant(IF j.o.kind.s = "markdown"
                                                          THEN "Markdown" ELSE "PlainText",
                                                          UnitValue),
                                         value |-> j.o.value])))
      [] OTHER -> Rejected

BareMarkedString(v) ==
    IF v.name = "String" THEN v.v
    ELSE Obj2("language", v.v.f.language, "value", v.v.f.value)

\* the bare JSON of the alternative a HoverContents value holds
BareContents(v) ==
    CASE v.name = "MarkedString" -> BareMarkedString(v.v)
      [] v.name = "MarkedStringArray" ->
           JArr([i \in 1..Len(v.v.a) |-> BareMarkedString(v.v.a[i])])
      [] v.name = "MarkupContent" ->
           Obj2("kind", JStr(IF v.v.f.kind.name = "Markdown" THEN "markdown" ELSE "plaintext"),
                "value", v.v.f.value)

(***************************************************************************)
(* C9.  Hover.contents is decoded by trying MarkedString, then the array   *)
(* of MarkedString, then MarkupContent, and taking the first that reads    *)
(* the document: a string is MarkedString::String, an object with strings  *)
(* `language` and `value` is MarkedString::LanguageString (whatever else   *)
(* it holds), an array of marked strings is MarkedStringArray, an object   *)
(* with a markup `kind` and a string `value` that is no LanguageString is  *)
(* MarkupContent.  Each variant encodes as the bare JSON of the            *)
(* alternative.                                                            *)
(***************************************************************************)
C9_HoverContentsOrder ==
    /\ (Decoded("HoverContents") /\ ContentsOf(doc).ok) => val = ContentsOf(doc)
    /\ (Decoded("Hover") /\ doc \in HoverDocs /\ ContentsOf(doc.o.contents).ok)
           => val.ok /\ val.v.f.contents = ContentsOf(doc.o.contents).v
    /\ Encoded("HoverContents") => wire = BareContents(val.v)
    /\ Encoded("Hover") => wire.o.contents = BareContents(val.v.f.contents)

\* an object that both LanguageString and MarkupContent can read has been
\* decoded as the contents of a Hover: the earlier alternative was taken
C9_Witness ==
    /\ Decoded("Hover") /\ doc \in HoverDocs /\ val.ok
    /\ IsLanguageString(doc.o.contents) /\ IsMarkup(doc.o.contents)
    /\ val.v.f.contents.v.name = "LanguageString"

\* the documents that are the bare JSON of an alternative of the shape
Alternatives(name) ==
    CASE name = "ProgressToken" -> {j \in IntDocs : FitsI32(j)} \cup StrDocs
      [] name = "TextEditOrAnnotatedTextEdit" -> {TextEditDoc, AnnotatedTextEditDoc}
      [] name = "BooleanOrSaveOptions" ->
           {JBool(TRUE), JBool(FALSE), JObj(EmptyObj), Obj1("includeText", JBool(TRUE))}
      [] name = "SemanticTokensOptionsFull" ->
           {JBool(TRUE), JBool(FALSE), JObj(EmptyObj), Obj1("delta", JBool(TRUE))}
      [] OTHER -> {}

KeyedByVariant(j) == j.t = "obj" /\ Cardinality(DOMAIN j.o) = 1 /\ DOMAIN j.o \subseteq VariantNames

(***************************************************************************)
(* C10.  A union type decodes from the bare JSON of an alternative and     *)
(* encodes a value as the bare JSON of the alternative it holds, never as  *)
(* an object keyed by the name of the variant.                             *)
(***************************************************************************)
C10_UnionsAreBare ==
    /\ (pc = "decoded" /\ doc \in Alternatives(shape)) => val.ok
    /\ (pc = "encoded" /\ Alternatives(shape) # {}) => ~KeyedByVariant(wire)

NumericEnums ==
    {"DiagnosticSeverity", "DiagnosticTag", "TextDocumentSyncKind", "SymbolKind",
     "InsertTextMode", "CompletionItemKind"}

\* the variants of an enumeration in the order of their declared values
DeclaredNames(name) ==
    CASE name = "DiagnosticSeverity" -> <<"Error", "Warning", "Information", "Hint">>
      [] name = "DiagnosticTag" -> <<"Unnecessary", "Deprecated">>
      [] name = "TextDocumentSyncKind" -> <<"None", "Full", "Incremental">>
      [] name = "SymbolKind" ->
           <<"File", "Module", "Namespace", "Package", "Class", "Method", "Property",
             "Field", "Constructor", "Enum", "Interface", "Function", "Variable",
             "Constant", "String", "Number", "Boolean", "Array", "Object", "Key", "Null",
             "EnumMember", "Struct", "Event", "Operator", "TypeParameter">>
      [] name = "InsertTextMode" -> <<"asIs", "adjustIndentation">>
      [] name = "CompletionItemKind" ->
           <<"Text", "Method", "Function", "Constructor", "Field", "Variable", "Class",
             "Interface", "Module", "Property", "Unit", "Value", "Enum", "Keyword",
             "Snippet", "Color", "File", "Reference", "Folder", "EnumMember", "Constant",
             "Struct", "Event", "Operator", "TypeParameter">>

\* the declared value of the first of them (the others follow by one)
FirstValue(name) == IF name = "TextDocumentSyncKind" THEN 0 ELSE 1

DeclaredValue(name, variant) ==
    FirstValue(name) - 1
        + (CHOOSE i \in 1..Len(DeclaredNames(name)) : DeclaredNames(name)[i] = variant)

DeclaredValues(name) == {FirstValue(name) - 1 + i : i \in 1..Len(DeclaredNames(name))}

\* an integer that no variant of the enumeration is declared with
Undeclared(name, j) == j.t = "int" /\ j \notin {JNum(n) : n \in DeclaredValues(name)}

(***************************************************************************)
(* C11.  Every variant of every enumeration declared with integer values   *)
(* is encoded as the integer it is declared with, never as a string.       *)
(***************************************************************************)
C11_NumericEnumsAsIntegers ==
    (pc = "encoded" /\ shape \in NumericEnums)
        => wire = JNum(DeclaredValue(shape, val.v.name))

(***************************************************************************)
(* C12.  Decoding an enumeration declared with integer values from an      *)
(* integer that is not one of its declared values is rejected: no value is *)
(* produced.                                                               *)
(***************************************************************************)
C12_UndeclaredRejected ==
    (pc = "decoded" /\ shape \in NumericEnums /\ Undeclared(shape, doc)) => val = Rejected

\* 27 as a SymbolKind: one past TypeParameter
C12_Witness ==
    /\ Decoded("SymbolKind")
    /\ doc = JNum(Len(DeclaredNames("SymbolKind")) + 1)
    /\ val = Rejected

(***************************************************************************)
(* C13.  Decoding an enumeration from an integer that no declared variant  *)
(* carries succeeds, the raw value being kept by a fallback variant.       *)
(***************************************************************************)
C13_UnknownKept ==
    (pc = "decoded" /\ shape \in NumericEnums /\ Undeclared(shape, doc)) => val.ok

StringEnums == {"MarkupKind", "TraceValue", "FileOperationPatternKind", "ResourceOperationKind"}

\* the literal of each variant
LiteralOf(name) ==
    CASE name = "MarkupKind" -> [PlainText |-> "plaintext", Markdown |-> "markdown"]
      [] name = "TraceValue" -> [Off |-> "off", Messages |-> "messages", Verbose |-> "verbose"]
      [] name = "FileOperationPatternKind" -> [File |-> "file", Folder |-> "folder"]
      [] name = "ResourceOperationKind" ->
           [Create |-> "create", Rename |-> "rename", Delete |-> "delete"]

LiteralsOf(name) == {LiteralOf(name)[v] : v \in DOMAIN LiteralOf(name)}

VariantOfLiteral(name, l) ==
    Variant(CHOOSE v \in DOMAIN LiteralOf(name) : LiteralOf(name)[v] = l, UnitValue)

IsLiteral(name, j) == j.t = "str" /\ j.s \in LiteralsOf(name)

\* an object whose one member is named by a literal and holds null
IsKeyedNull(name, j) ==
    /\ j.t = "obj"
    /\ \E l \in LiteralsOf(name) : DOMAIN j.o = {l} /\ j.o[l] = JNull

LiteralIn(j) == IF j.t = "str" THEN j.s ELSE CHOOSE l \in DOMAIN j.o : TRUE

\* C14 as stated: every variant encodes as its literal, and a value is
\* decoded from the literal and from nothing else
C14_OnlyFromLiteral ==
    /\ (pc = "encoded" /\ shape \in StringEnums) => wire = JStr(LiteralOf(shape)[val.v.name])
    /\ (pc = "decoded" /\ shape \in StringEnums)
           => (val.ok <=> IsLiteral(shape, doc))

(***************************************************************************)
(* C14.  Every variant of MarkupKind, TraceValue, FileOperationPatternKind *)
(* and ResourceOperationKind encodes as its lowercase literal; it decodes  *)
(* from that literal, and from an object whose one member is named by the  *)
(* literal and holds null, and from no other document.                     *)
(***************************************************************************)
C14_LiteralOrKeyedNull ==
    /\ (pc = "encoded" /\ shape \in StringEnums) => wire = JStr(LiteralOf(shape)[val.v.name])
    /\ (pc = "decoded" /\ shape \in StringEnums)
           => /\ val.ok <=> (IsLiteral(shape, doc) \/ IsKeyedNull(shape, doc))
              /\ val.ok => val.v = VariantOfLiteral(shape, LiteralIn(doc))

\* TraceValue::Verbose read from {"verbose": null} and written as "verbose"
C14_Witness ==
    /\ Encoded("TraceValue")
    /\ doc = Obj1("verbose", JNull)
    /\ val = Accepted(Variant("Verbose", UnitValue))
    /\ wire = JStr("verbose")

(***************************************************************************)
(* C15.  In every WorkspaceEdit value, decoded or constructed, `changes`   *)
(* and `documentChanges` are never both populated.                         *)
(***************************************************************************)
C15_ChangesExclusive ==
    (shape = "WorkspaceEdit" /\ pc \in {"decoded", "built"} /\ val.ok)
        => ~(val.v.f.changes.t = "some" /\ val.v.f.documentChanges.t = "some")

\* an array of the documented forms: TextDocumentEdit entries only, or
\* TextDocumentEdit entries mixed with create, rename and delete operations
IsDocumentedForm(j) ==
    /\ j.t = "arr"
    /\ \A i \in 1..Len(j.a) : j.a[i] \in TextDocumentEditDocs \cup FileOperationDocs

\* the i-th entry read is the i-th entry of the array
KeptInOrder(entries, a) ==
    /\ Len(entries) = Len(a)
    /\ \A i \in 1..Len(a) :
           a[i] \in TextDocumentEditDocs
               => entries[i].f.textDocument.f.uri = a[i].o.textDocument.o.uri

(***************************************************************************)
(* C16.  WorkspaceEdit.documentChanges accepts an array of                 *)
(* TextDocumentEdit entries and an array in which they are mixed with      *)
(* create, rename and delete operations: each decodes, and the entries     *)
(* keep their order.                                                       *)
(***************************************************************************)
C16_DocumentChangesForms ==
    (Decoded("WorkspaceEdit") /\ Has(doc, "documentChanges")
         /\ IsDocumentedForm(doc.o.documentChanges))
        => /\ val.ok
           /\ val.v.f.documentChanges.t = "some"
           /\ KeptInOrder(val.v.f.documentChanges.v.v.a, doc.o.documentChanges.a)

\* the value of a JSON integer of a few digits
Num(j) == (IF j.neg THEN -1 ELSE 1) * (j.hi * (LimbMax + 1) + j.lo)

\* a ResponseError built with ErrorCodes::<n>, before or after it is written
Named(n) ==
    /\ shape = "ResponseError"
    /\ pc \in {"built", "encoded"}
    /\ val.v.f.message = JStr(n)

RangeMarkers ==
    {"jsonrpcReservedErrorRangeStart", "jsonrpcReservedErrorRangeEnd",
     "lspReservedErrorRangeStart", "lspReservedErrorRangeEnd"}

JsonRpcCodes ==
    [ParseError |-> -32700, InvalidRequest |-> -32600, MethodNotFound |-> -32601,
     InvalidParams |-> -32602, InternalError |-> -32603]

LspCodes ==
    [RequestFailed |-> -32803, ServerCancelled |-> -32802, ContentModified |-> -32801,
     RequestCancelled |-> -32800]

LeftInRange == {"ServerNotInitialized", "UnknownErrorCode"}

\* the constants that are error codes: neither range markers nor the
\* deprecated aliases of range markers
ActualCodes == (DOMAIN JsonRpcCodes) \cup (DOMAIN LspCodes) \cup LeftInRange

(***************************************************************************)
(* C17.  ParseError is -32700, InvalidRequest, MethodNotFound,             *)
(* InvalidParams and InternalError are -32600 to -32603, and               *)
(* RequestFailed, ServerCancelled, ContentModified and RequestCancelled    *)
(* are -32803, -32802, -32801 and -32800, each from                        *)
(* lspReservedErrorRangeStart to lspReservedErrorRangeEnd; an error built  *)
(* with one of them is written with that code.                             *)
(***************************************************************************)
C17_ErrorCodeTable ==
    /\ \A n \in DOMAIN JsonRpcCodes : Named(n) => Num(val.v.f.code) = JsonRpcCodes[n]
    /\ \A n \in DOMAIN LspCodes :
           Named(n) => /\ Num(val.v.f.code) = LspCodes[n]
                       /\ lspReservedErrorRangeStart <= Num(val.v.f.code)
                       /\ Num(val.v.f.code) <= lspReservedErrorRangeEnd
    /\ \A n \in (DOMAIN JsonRpcCodes) \cup (DOMAIN LspCodes) :
           (Named(n) /\ pc = "encoded") => Num(wire.o.code) = Num(val.v.f.code)

\* ErrorCodes::RequestFailed written as -32803
C17_Witness ==
    /\ Named("RequestFailed")
    /\ pc = "encoded"
    /\ wire.o.code = JInt(TRUE, 0, 32803)

(***************************************************************************)
(* C18.  The four range markers do not denote error codes: none of them    *)
(* equals an error code of ErrorCodes.                                     *)
(***************************************************************************)
C18_MarkersAreNoCodes ==
    \A n \in ActualCodes :
        Named(n) => \A m \in RangeMarkers : Num(val.v.f.code) # ErrorCodes[m]

(***************************************************************************)
(* C19.  The reserved range of JSON-RPC is -32099 to -32000; no error code *)
(* lies in it except ServerNotInitialized and UnknownErrorCode, and        *)
(* serverErrorStart and serverErrorEnd equal its start and its end.        *)
(***************************************************************************)
C19_JsonRpcRange ==
    /\ Named("jsonrpcReservedErrorRangeStart") => Num(val.v.f.code) = -32099
    /\ Named("jsonrpcReservedErrorRangeEnd") => Num(val.v.f.code) = -32000
    /\ \A n \in ActualCodes :
           Named(n) => ((n \in LeftInRange)
                           <=> (/\ jsonrpcReservedErrorRangeStart <= Num(val.v.f.code)
                                /\ Num(val.v.f.code) <= jsonrpcReservedErrorRangeEnd))
    /\ Named("serverErrorStart") => Num(val.v.f.code) = jsonrpcReservedErrorRangeStart
    /\ Named("serverErrorEnd") => Num(val.v.f.code) = jsonrpcReservedErrorRangeEnd

\* an error built with the deprecated serverErrorEnd carries -32000
C19_Witness ==
    /\ Named("serverErrorEnd")
    /\ pc = "built"
    /\ val.v.f.code = JInt(TRUE, 0, 32000)

OpenKinds == {"CodeActionKind", "FoldingRangeKind"}

(***************************************************************************)
(* C20.  CodeActionKind and FoldingRangeKind are open sets of strings:     *)
(* each decodes any string, the predefined literals or not, and encodes    *)
(* the value back to the same string.                                      *)
(***************************************************************************)
C20_OpenKindsAccepted ==
    /\ (pc = "decoded" /\ shape \in OpenKinds /\ doc.t = "str") => val.ok
    /\ (pc = "encoded" /\ shape \in OpenKinds /\ doc.t = "str") => wire = doc

\* 0 to 2^31 - 1
InUIntegerRange(j) == j.t = "int" /\ ~j.neg /\ j.hi <= 32767

\* -2^31 to 2^31 - 1
InIntegerRange(j) ==
    /\ j.t = "int"
    /\ IF j.neg THEN j.hi <= 32767 \/ (j.hi = 32768 /\ j.lo = 0) ELSE j.hi <= 32767

(***************************************************************************)
(* C21.  Every value accepted for a UInteger field lies in 0 to 2^31 - 1   *)
(* (a value from 2^31 upward is rejected), and every value accepted for an *)
(* Integer field lies in -2^31 to 2^31 - 1.                                *)
(***************************************************************************)
C21_IntegerRanges ==
    /\ (Decoded("Position") /\ val.ok)
           => InUIntegerRange(val.v.f.line) /\ InUIntegerRange(val.v.f.character)
    /\ (Decoded("OptionalVersionedTextDocumentIdentifier") /\ val.ok
            /\ val.v.f.version.t = "some")
           => InIntegerRange(val.v.f.version.v)

\* the integers that are a non-empty combination of Create, Change, Delete
WatchCombinations == {JNum(n) : n \in 1..7}

(***************************************************************************)
(* C22.  The three WatchKind values are written as the distinct single-bit *)
(* flags 1, 2 and 4, and every combination of them, the integers 1 to 7,   *)
(* decodes as a WatchKind and as FileSystemWatcher.kind and is written     *)
(* back as the same integer.                                               *)
(***************************************************************************)
C22_WatchKindFlags ==
    /\ Encoded("WatchKind") => wire \in {JNum(1), JNum(2), JNum(4)} /\ wire = doc
    /\ (Decoded("WatchKind") /\ doc \in WatchCombinations) => val.ok
    /\ (Decoded("FileSystemWatcher") /\ doc \in FileSystemWatcherDocs /\ Has(doc, "kind")
            /\ doc.o.kind \in WatchCombinations)
           => val.ok
    /\ (Encoded("FileSystemWatcher") /\ Has(doc, "kind") /\ doc.o.kind # JNull)
           => wire.o.kind = doc.o.kind

WithRange == "TextDocumentContentChangeEventWithRange"

WithoutRange == "TextDocumentContentChangeEventWithoutRange"

IsText(j) == j.t = "obj" /\ Has(j, "text") /\ j.o.text.t = "str"

\* `rangeLength` is left out, or null, or an unsigned integer
RangeLengthFits(j) ==
    Has(j, "rangeLength") => (j.o.rangeLength = JNull \/ InUIntegerRange(j.o.rangeLength))

(***************************************************************************)
(* C23.  An object with `text` only decodes as the whole-document variant; *)
(* an object with `range` and `text`, with or without `rangeLength`,       *)
(* decodes as the ranged variant, the range kept; an object with `range`   *)
(* (other than null) is never decoded as the whole-document variant.       *)
(***************************************************************************)
C23_RangeDecidesVariant ==
    /\ (Decoded("TextDocumentContentChangeEvent") /\ IsText(doc) /\ DOMAIN doc.o = {"text"})
           => val = Accepted(Variant(WithoutRange, StructValue([text |-> doc.o.text])))
    /\ (Decoded("TextDocumentContentChangeEvent") /\ IsText(doc) /\ Has(doc, "range")
            /\ doc.o.range = RangeDoc /\ RangeLengthFits(doc))
           => /\ val.ok
              /\ val.v.name = WithRange
              /\ val.v.v.f.range = RangeValue
    /\ (Decoded("TextDocumentContentChangeEvent") /\ doc.t = "obj" /\ Has(doc, "range")
            /\ doc.o.range # JNull /\ val.ok)
           => val.v.name # WithoutRange

EOLString(v) ==
    CASE v.name = "LF" -> "\n"
      [] v.name = "CRLF" -> "\r\n"
      [] v.name = "CR" -> "\r"

(***************************************************************************)
(* C24.  LF, CRLF and CR encode to the strings "\n", "\r\n" and "\r", and  *)
(* decoding each of those strings gives the value it came from.            *)
(***************************************************************************)
C24_EOLRoundTrip ==
    /\ Encoded("EOL") => wire = JStr(EOLString(val.v)) /\ Decode(EOL, wire) = val
    /\ (Decoded("EOL") /\ doc.t = "str" /\ doc.s \in EOLStrings)
           => val.ok /\ EOLString(val.v) = doc.s

ProgressShapes == {"WorkDoneProgressBegin", "WorkDoneProgressReport", "WorkDoneProgressEnd"}

\* the variant, and the literal, of the `kind` of each payload
KindOf(name) ==
    CASE name = "WorkDoneProgressBegin" -> [variant |-> "Begin", literal |-> "begin"]
      [] name = "WorkDoneProgressReport" -> [variant |-> "Report", literal |-> "report"]
      [] name = "WorkDoneProgressEnd" -> [variant |-> "End", literal |-> "end"]

(***************************************************************************)
(* C25.  Every WorkDoneProgressBegin value has kind `begin`, every         *)
(* WorkDoneProgressReport kind `report`, every WorkDoneProgressEnd kind    *)
(* `end`, and an object whose `kind` is another literal is rejected.       *)
(***************************************************************************)
C25_KindFixedPerType ==
    /\ (shape \in ProgressShapes /\ pc \in {"decoded", "built"} /\ val.ok)
           => val.v.f.kind = Variant(KindOf(shape).variant, UnitValue)
    /\ (pc = "decoded" /\ shape \in ProgressShapes /\ Has(doc, "kind")
            /\ doc.o.kind # JStr(KindOf(shape).literal))
           => ~val.ok

====
